---- MODULE Spec2Model ----
(***************************************************************************)
(* State machine of script.js: the in-memory todos array, the active       *)
(* filter, the localStorage entry under STORAGE_KEY and the DOM nodes the  *)
(* script writes (the <ul>, the counter span, the message line).           *)
(*                                                                         *)
(* Text is a sequence of one-character strings.  JavaScript values are     *)
(* tagged records; a JSON document is the JavaScript value it denotes,     *)
(* restricted to what JSON can express (no undefined, no NaN).             *)
(***************************************************************************)
EXTENDS Integers, Sequences, FiniteSets

\* ------------------------------------------------------------------ bounds

\* Largest collection an add may build.
MaxTodos == 2
\* Last millisecond of the modelled clock.
MaxClock == 3
\* Most setItem calls that throw.
MaxFailures == 1

\* Texts typed into the input field before a submit.
Texts == {<<>>, <<" ", " ">>, <<"a">>, <<" ", "a", " ">>}

\* ------------------------------------------------------- JavaScript values

Undefined == [t |-> "undefined"]
Null == [t |-> "null"]
NaN == [t |-> "nan"]
Num(n) == [t |-> "num", n |-> n]
Str(s) == [t |-> "str", s |-> s]
Bool(b) == [t |-> "bool", b |-> b]
Arr(a) == [t |-> "arr", a |-> a]
Obj(o) == [t |-> "obj", o |-> o]

\* a === b on numbers: NaN is equal to nothing, itself included.
StrictEq(a, b) == a # NaN /\ b # NaN /\ a = b

IsWhitespace(c) == c = " "

RECURSIVE TrimStart(_)
TrimStart(s) ==
  IF s = <<>> THEN s
  ELSE IF IsWhitespace(Head(s)) THEN TrimStart(Tail(s)) ELSE s

RECURSIVE TrimEnd(_)
TrimEnd(s) ==
  IF s = <<>> THEN s
  ELSE IF IsWhitespace(s[Len(s)]) THEN TrimEnd(SubSeq(s, 1, Len(s) - 1)) ELSE s

\* Faulty trims: the text used as typed; only the leading whitespace removed.
TrimNothing(s) == s
TrimStartOnly(s) == TrimStart(s)

\* String.prototype.trim
Trim(s) == TrimEnd(TrimStart(s))

Digit == <<"0", "1", "2", "3", "4", "5", "6", "7", "8", "9">>

RECURSIVE NumToStr(_)
NumToStr(n) ==
  IF n < 10 THEN <<Digit[n + 1]>>
  ELSE NumToStr(n \div 10) \o <<Digit[(n % 10) + 1]>>

\* Number(v).  No text of the model holds a digit, so a string is either
\* blank (0) or not a numeral (NaN).
JSNumber(v) ==
  CASE v.t = "undefined" -> NaN
    [] v.t = "null" -> Num(0)
    [] v.t = "bool" -> IF v.b THEN Num(1) ELSE Num(0)
    [] v.t = "num" -> v
    [] v.t = "nan" -> NaN
    [] v.t = "str" -> IF Trim(v.s) = <<>> THEN Num(0) ELSE NaN
    [] OTHER -> NaN

\* String(v), on the primitive values.
JSString(v) ==
  CASE v.t = "undefined" -> <<"u", "n", "d", "e", "f", "i", "n", "e", "d">>
    [] v.t = "null" -> <<"n", "u", "l", "l">>
    [] v.t = "bool" -> IF v.b THEN <<"t", "r", "u", "e">>
                       ELSE <<"f", "a", "l", "s", "e">>
    [] v.t = "num" -> NumToStr(v.n)
    [] v.t = "nan" -> <<"N", "a", "N">>
    [] v.t = "str" -> v.s
    [] OTHER -> <<"[", "o", "b", "j", "e", "c", "t", "]">>

\* Boolean(v)
JSBoolean(v) ==
  CASE v.t = "undefined" -> FALSE
    [] v.t = "null" -> FALSE
    [] v.t = "bool" -> v.b
    [] v.t = "num" -> v.n # 0
    [] v.t = "nan" -> FALSE
    [] v.t = "str" -> v.s # <<>>
    [] OTHER -> TRUE

\* item.key: undefined when the property is missing or item is a primitive.
\* (On null or undefined the access throws; see MapThrows.)
Get(item, key) ==
  IF item.t = "obj" /\ key \in DOMAIN item.o THEN item.o[key] ELSE Undefined

\* ------------------------------------------------------------ localStorage

\* What localStorage holds under STORAGE_KEY.
Absent == [k |-> "absent"]
EmptyString == [k |-> "empty"]
Malformed == [k |-> "malformed"]
Doc(v) == [k |-> "json", v |-> v]

\* JSON.stringify of a number: NaN has no JSON form and is written as null.
StringifyNumber(id) == IF id = NaN THEN Null ELSE id

StringifyTodo(todo) ==
  Obj([id |-> StringifyNumber(todo.id),
       text |-> Str(todo.text),
       completed |-> Bool(todo.completed)])

\* JSON.stringify(todos)
Stringify(ts) == Doc(Arr([i \in 1..Len(ts) |-> StringifyTodo(ts[i])]))

\* JSON.parse(saved): the value, or a SyntaxError.
JSONparse(saved) ==
  IF saved.k = "json" THEN [threw |-> FALSE, v |-> saved.v]
  ELSE [threw |-> TRUE]

\* The mapping callback of loadTodosFromStorage.
CoerceItem(item) ==
  [id |-> JSNumber(Get(item, "id")),
   text |-> JSString(Get(item, "text")),
   completed |-> JSBoolean(Get(item, "completed"))]

\* item.id throws a TypeError when item is null.
MapThrows(a) == \E i \in 1..Len(a) : a[i].t \in {"null", "undefined"}

\* Faulty load: a parsed value that is not an array is taken as one item.
loadWrapsNonArray(saved) ==
  IF saved.k \in {"absent", "empty"} THEN <<>>
  ELSE LET parsed == JSONparse(saved) IN
       IF parsed.threw THEN <<>>
       ELSE IF parsed.v.t = "arr"
            THEN IF MapThrows(parsed.v.a) THEN <<>>
                 ELSE [i \in 1..Len(parsed.v.a) |-> CoerceItem(parsed.v.a[i])]
            ELSE IF parsed.v.t = "null" THEN <<>>
                 ELSE <<CoerceItem(parsed.v)>>

\* loadTodosFromStorage: the array assigned to todos.
loadTodosFromStorage(saved) ==
  IF saved.k \in {"absent", "empty"} THEN <<>>
  ELSE LET parsed == JSONparse(saved) IN
       IF parsed.threw THEN <<>>
       ELSE IF parsed.v.t = "arr"
            THEN IF MapThrows(parsed.v.a) THEN <<>>
                 ELSE [i \in 1..Len(parsed.v.a) |-> CoerceItem(parsed.v.a[i])]
            ELSE <<>>

\* What a first visit may find under the key.
JA == Str(<<"a">>)
Done == Obj([id |-> Num(1), text |-> JA, completed |-> Bool(TRUE)])
NoFields == Obj(<<>>)
InitialStores ==
  {Absent, EmptyString, Malformed,
   Doc(Null), Doc(Obj([id |-> Num(1)])),
   Doc(Arr(<<>>)), Doc(Arr(<<Null>>)), Doc(Arr(<<Done, Null>>)),
   Doc(Arr(<<Done>>)), Doc(Arr(<<NoFields>>))}

\* --------------------------------------------------------------- the view

Filters == {"all", "pending", "completed"}

\* Array.prototype.filter with the callback (todo) => todo.completed = want.
RECURSIVE FilterCompleted(_, _)
FilterCompleted(ts, want) ==
  IF ts = <<>> THEN <<>>
  ELSE IF Head(ts).completed = want
       THEN <<Head(ts)>> \o FilterCompleted(Tail(ts), want)
       ELSE FilterCompleted(Tail(ts), want)

\* Faulty filter: the two predicates exchanged.
getFilteredTodosSwapped(ts, filter) ==
  IF filter = "pending" THEN FilterCompleted(ts, TRUE)
  ELSE IF filter = "completed" THEN FilterCompleted(ts, FALSE)
  ELSE ts

getFilteredTodos(ts, filter) ==
  IF filter = "pending" THEN FilterCompleted(ts, FALSE)
  ELSE IF filter = "completed" THEN FilterCompleted(ts, TRUE)
  ELSE ts

\* The <li> of one todo: data-id, checkbox state, text.
createTodoElement(todo) ==
  [cls |-> "todo", id |-> todo.id, checked |-> todo.completed,
   text |-> todo.text]

emptyMessage(filter) ==
  IF filter = "pending" THEN "No pending tasks"
  ELSE IF filter = "completed" THEN "No completed tasks yet."
  ELSE "No tasks yet. Add your first todo."

\* renderTodos: the children of the <ul> after the call.
renderTodos(ts, filter) ==
  LET visibleTodos == getFilteredTodos(ts, filter) IN
  IF Len(visibleTodos) = 0
  THEN <<[cls |-> "empty", message |-> emptyMessage(filter)]>>
  ELSE [i \in 1..Len(visibleTodos) |-> createTodoElement(visibleTodos[i])]

\* updateTodoCounter: the three numbers of the counter span.
updateTodoCounter(ts) ==
  [total |-> Len(ts),
   pending |-> Len(FilterCompleted(ts, FALSE)),
   completed |-> Len(FilterCompleted(ts, TRUE))]

PleaseEnter == "Please enter a todo before adding."

\* ------------------------------------------------------------------ state

VARIABLES
  todos,          \* the in-memory array
  currentFilter,  \* "all" | "pending" | "completed"
  storage,        \* localStorage under STORAGE_KEY
  todoList,       \* children of the <ul>
  todoCount,      \* numbers shown in the counter span
  todoMessage,    \* text under the input
  now,            \* Date.now()
  ready,          \* DOMContentLoaded has fired
  failures,       \* setItem calls that have thrown
  lastOp          \* the call made by the last step: name, arguments,
                  \* setItem calls with the value passed, uncaught exception

vars == <<todos, currentFilter, storage, todoList, todoCount, todoMessage,
          now, ready, failures, lastOp>>

NoOp == [op |-> "none", writes |-> 0, threw |-> FALSE]

Init ==
  /\ todos = <<>>
  /\ currentFilter = "all"
  /\ storage \in InitialStores
  /\ todoList = <<>>
  /\ todoCount = [total |-> 0, pending |-> 0, completed |-> 0]
  /\ todoMessage = ""
  /\ now = 2
  /\ ready = FALSE
  /\ failures = 0
  /\ lastOp = NoOp

\* Arguments the handlers are called with.
IdInputs == {Num(n) : n \in 0..MaxClock} \cup {NaN}

Has(ts, id) == \E i \in 1..Len(ts) : StrictEq(ts[i].id, id)

\* saveTodosToStorage and what follows it in every mutating handler, once
\* todos has become ts: setItem either stores JSON.stringify(todos) or throws
\* (quota exceeded, storage unavailable).  No handler catches, so a throw
\* ends the handler there: renderTodos, updateTodoCounter and
\* setTodoMessage("") are not reached.
SaveAndRender(call, ts, throws, clearMessage) ==
  LET ok == ~throws IN
  /\ throws => failures < MaxFailures
  /\ failures' = IF throws THEN failures + 1 ELSE failures
  /\ todos' = ts
  /\ storage' = IF ok THEN Stringify(ts) ELSE storage
  /\ todoList' = IF ok THEN renderTodos(ts, currentFilter) ELSE todoList
  /\ todoCount' = IF ok THEN updateTodoCounter(ts) ELSE todoCount
  /\ todoMessage' = IF ok /\ clearMessage THEN "" ELSE todoMessage
  /\ lastOp' = [op |-> call.op, arg |-> call.arg, writes |-> 1,
                written |-> Stringify(ts), threw |-> throws]

\* A visit of the page: the script's top level (todos = [], currentFilter =
\* "all") and then init, run by DOMContentLoaded.
init ==
  /\ ready' = TRUE
  /\ currentFilter' = "all"
  /\ todos' = loadTodosFromStorage(storage)
  /\ todoCount' = updateTodoCounter(todos')
  /\ todoList' = renderTodos(todos', currentFilter')
  /\ todoMessage' = ""
  /\ lastOp' = [op |-> "init", writes |-> 0, threw |-> FALSE]
  /\ UNCHANGED <<storage, now, failures>>

newTodo(text) == [id |-> Num(now), text |-> Trim(text), completed |-> FALSE]

\* handleFormSubmit -> addTodo(text)
addTodo(text) ==
  /\ ready
  /\ IF Trim(text) = <<>>
     THEN /\ todoMessage' = PleaseEnter
          /\ lastOp' = [op |-> "add", arg |-> text, writes |-> 0,
                        threw |-> FALSE]
          /\ UNCHANGED <<todos, currentFilter, storage, todoList, todoCount,
                         now, ready, failures>>
     ELSE /\ Len(todos) < MaxTodos
          /\ \E throws \in BOOLEAN :
               SaveAndRender([op |-> "add", arg |-> text],
                             Append(todos, newTodo(text)), throws, TRUE)
          /\ UNCHANGED <<currentFilter, now, ready>>

\* Faulty toggle: marks the item completed instead of flipping it.
ToggledSetsTrue(ts, id) ==
  [i \in 1..Len(ts) |->
     IF StrictEq(ts[i].id, id)
     THEN [ts[i] EXCEPT !.completed = TRUE]
     ELSE ts[i]]

\* todos.map((todo) => todo.id === id ? {...todo, completed: !todo.completed} : todo)
Toggled(ts, id) ==
  [i \in 1..Len(ts) |->
     IF StrictEq(ts[i].id, id)
     THEN [ts[i] EXCEPT !.completed = ~ts[i].completed]
     ELSE ts[i]]

\* Faulty delete: the comparison inverted, keeping the items with the id.
RECURSIVE DeletedKeepsMatching(_, _)
DeletedKeepsMatching(ts, id) ==
  IF ts = <<>> THEN <<>>
  ELSE IF StrictEq(Head(ts).id, id)
       THEN <<Head(ts)>> \o DeletedKeepsMatching(Tail(ts), id)
       ELSE DeletedKeepsMatching(Tail(ts), id)

\* todos.filter((todo) => todo.id !== id)
RECURSIVE Deleted(_, _)
Deleted(ts, id) ==
  IF ts = <<>> THEN <<>>
  ELSE IF ~StrictEq(Head(ts).id, id)
       THEN <<Head(ts)>> \o Deleted(Tail(ts), id)
       ELSE Deleted(Tail(ts), id)

\* Faulty toggle handler: saves only when an item has the id.
toggleSavesIfFound(id) ==
  /\ ready
  /\ IF Has(todos, id)
     THEN \E throws \in BOOLEAN :
            SaveAndRender([op |-> "toggle", arg |-> id], Toggled(todos, id),
                          throws, FALSE)
     ELSE /\ todoList' = renderTodos(todos, currentFilter)
          /\ todoCount' = updateTodoCounter(todos)
          /\ lastOp' = [op |-> "toggle", arg |-> id, writes |-> 0,
                        threw |-> FALSE]
          /\ UNCHANGED <<todos, storage, todoMessage, failures>>
  /\ UNCHANGED <<currentFilter, now, ready>>

toggleTodoCompleted(id) ==
  /\ ready
  /\ \E throws \in BOOLEAN :
       SaveAndRender([op |-> "toggle", arg |-> id], Toggled(todos, id),
                     throws, FALSE)
  /\ UNCHANGED <<currentFilter, now, ready>>

deleteTodo(id) ==
  /\ ready
  /\ \E throws \in BOOLEAN :
       SaveAndRender([op |-> "delete", arg |-> id], Deleted(todos, id),
                     throws, FALSE)
  /\ UNCHANGED <<currentFilter, now, ready>>

setFilter(filter) ==
  /\ ready
  /\ currentFilter' = filter
  /\ todoList' = renderTodos(todos, filter)
  /\ lastOp' = [op |-> "setFilter", writes |-> 0,
                threw |-> FALSE]
  /\ UNCHANGED <<todos, storage, todoCount, todoMessage, now, ready,
                 failures>>

\* A millisecond passes.
Tick ==
  /\ now < MaxClock
  /\ now' = now + 1
  /\ lastOp' = [op |-> "tick", writes |-> 0, threw |-> FALSE]
  /\ UNCHANGED <<todos, currentFilter, storage, todoList, todoCount,
                 todoMessage, ready, failures>>

\* The ids the rendered checkboxes and delete buttons were created with.
RenderedIds ==
  {todoList[i].id : i \in {j \in 1..Len(todoList) : todoList[j].cls = "todo"}}

Submit == \E text \in Texts : addTodo(text)
Check == \E id \in RenderedIds : toggleTodoCompleted(id)
Remove == \E id \in RenderedIds : deleteTodo(id)
Choose == \E filter \in Filters : setFilter(filter)

Next == init \/ Submit \/ Check \/ Remove \/ Choose \/ Tick

Spec == Init /\ [][Next]_vars

\* ------------------------------------------------------- stating the claims

IsBlank(s) == \A i \in 1..Len(s) : s[i] = " "

\* t is s without its leading and trailing whitespace.
IsTrimOf(t, s) ==
  /\ t = <<>> \/ (t[1] # " " /\ t[Len(t)] # " ")
  /\ \E i \in 0..Len(s) : \E j \in 0..(Len(s) - i) :
       /\ t = SubSeq(s, i + 1, Len(s) - j)
       /\ \A k \in 1..i : s[k] = " "
       /\ \A k \in (Len(s) - j + 1)..Len(s) : s[k] = " "

\* v holds exactly the entries of ts at the indices of keep, in ts's order.
IsSelection(v, ts, keep) ==
  /\ Len(v) = Cardinality(keep)
  /\ \A i \in keep : v[Cardinality({j \in keep : j <= i})] = ts[i]

Passes(todo, filter) ==
  CASE filter = "pending" -> todo.completed = FALSE
    [] filter = "completed" -> todo.completed = TRUE
    [] OTHER -> TRUE

UniqueIds(ts) ==
  \A i, j \in 1..Len(ts) : i # j => ~StrictEq(ts[i].id, ts[j].id)

IsAdd(o) == o.op = "add" /\ ~IsBlank(o.arg)
IsBlankAdd(o) == o.op = "add" /\ IsBlank(o.arg)

\* C1: in every reachable state no two items of the collection have the same
\* id (every add gives its item an id no item of the collection has).
C1_UniqueIds == UniqueIds(todos)

\* C2 as stated: add with non-blank text, delete, and toggle of an id that is
\* found perform exactly one write, of the collection as it is after the
\* change; a toggle of an id that is not found performs none.
C2_ToggleWritesOnlyIfFound ==
  /\ (IsAdd(lastOp) \/ lastOp.op = "delete"
        \/ (lastOp.op = "toggle" /\ Has(todos, lastOp.arg)))
       => lastOp.writes = 1 /\ lastOp.written = Stringify(todos)
  /\ (lastOp.op = "toggle" /\ ~Has(todos, lastOp.arg)) => lastOp.writes = 0

\* C2 amended: add with non-blank text, toggle and delete each perform
\* exactly one write, of the collection as it is after the change, and a
\* write that does not throw leaves that value in the store; toggle writes
\* whether or not the id was found.  No other call writes.
C2_OneWriteAfterChange ==
  /\ (IsAdd(lastOp) \/ lastOp.op \in {"toggle", "delete"})
       => /\ lastOp.writes = 1
          /\ lastOp.written = Stringify(todos)
          /\ ~lastOp.threw => storage = Stringify(todos)
  /\ ~(IsAdd(lastOp) \/ lastOp.op \in {"toggle", "delete"})
       => lastOp.writes = 0

\* A toggle of an id that is in no item has written the collection.
C2_Witness ==
  /\ lastOp.op = "toggle" /\ ~Has(todos, lastOp.arg)
  /\ lastOp.writes = 1 /\ ~lastOp.threw /\ storage = Stringify(todos)

\* C3: an add with blank text leaves the collection, the filter, the store
\* and the rendered list and counter as they were, writes nothing and sets
\* the advisory message.
C3_BlankAddChangesNothing ==
  [][IsBlankAdd(lastOp')
       => /\ todos' = todos
          /\ currentFilter' = currentFilter
          /\ storage' = storage
          /\ todoList' = todoList
          /\ todoCount' = todoCount
          /\ lastOp'.writes = 0 /\ ~lastOp'.threw
          /\ todoMessage' = PleaseEnter]_vars

\* A whitespace-only add was made on a non-empty collection that is stored.
C3_Witness ==
  /\ IsBlankAdd(lastOp) /\ lastOp.arg # <<>>
  /\ todos # <<>> /\ storage = Stringify(todos)
  /\ todoMessage = PleaseEnter

\* C4: an add with non-blank text appends exactly one item, whose text is
\* the trimmed input and whose completed flag is false; the items before it
\* are the old collection, unchanged and in order.
C4_AddAppendsTrimmed ==
  [][IsAdd(lastOp')
       => /\ Len(todos') = Len(todos) + 1
          /\ SubSeq(todos', 1, Len(todos)) = todos
          /\ IsTrimOf(todos'[Len(todos')].text, lastOp'.arg)
          /\ todos'[Len(todos')].completed = FALSE]_vars

\* " a " was added as the second item.
C4_Witness ==
  /\ IsAdd(lastOp) /\ lastOp.arg = <<" ", "a", " ">>
  /\ Len(todos) = 2 /\ todos[2].text = <<"a">>

\* C5: under every filter the visible items are exactly the items passing
\* the filter's predicate, in the collection's order; setFilter shows them
\* and leaves the collection and the store alone.
C5_VisibleIsFilteredSubsequence ==
  /\ [](\A f \in Filters :
          IsSelection(getFilteredTodos(todos, f), todos,
                      {i \in 1..Len(todos) : Passes(todos[i], f)}))
  /\ [][lastOp'.op = "setFilter"
          => /\ todos' = todos /\ storage' = storage
             /\ LET shown == getFilteredTodos(todos', currentFilter') IN
                IF shown = <<>> THEN todoList'[1].cls = "empty"
                ELSE /\ Len(todoList') = Len(shown)
                     /\ \A i \in 1..Len(shown) :
                          /\ todoList'[i].id = shown[i].id
                          /\ todoList'[i].text = shown[i].text
                          /\ todoList'[i].checked = shown[i].completed]_vars

\* The pending filter was chosen on a collection whose first item is
\* completed and whose second is pending.
C5_Witness ==
  /\ lastOp.op = "setFilter" /\ currentFilter = "pending"
  /\ Len(todos) = 2 /\ todos[1].completed /\ ~todos[2].completed
  /\ Len(todoList) = 1 /\ todoList[1].cls = "todo"

Unusable(saved) ==
  \/ saved.k \in {"absent", "empty", "malformed"}
  \/ saved.k = "json" /\ saved.v.t # "arr"

\* C7: init's load does not throw, and leaves the collection empty when the
\* key is absent, the value does not parse or the document is not an array.
C7_LoadResets ==
  lastOp.op = "init"
    => /\ ~lastOp.threw
       /\ Unusable(storage) => todos = <<>>
       /\ (storage.k = "json" /\ storage.v.t = "arr" /\ todos # <<>>)
            => Len(todos) = Len(storage.v.a)

\* The page was loaded over unparseable text after an add whose write threw:
\* the collection held an item before the load.
C7_Witness ==
  /\ lastOp.op = "init" /\ storage = Malformed
  /\ failures = 1 /\ todos = <<>>

\* C8: toggling an id twice restores the collection; one toggle keeps every
\* id, text and position and flips exactly the items with that id; a toggle
\* of an id in no item changes nothing.
C8_ToggleInvolution ==
  \A id \in IdInputs :
    LET once == Toggled(todos, id) IN
    /\ Toggled(once, id) = todos
    /\ Len(once) = Len(todos)
    /\ \A i \in 1..Len(todos) :
         /\ once[i].id = todos[i].id /\ once[i].text = todos[i].text
         /\ (once[i].completed # todos[i].completed)
              <=> StrictEq(todos[i].id, id)
    /\ ~Has(todos, id) => once = todos

\* A toggle has completed the second of two items.
C8_Witness ==
  /\ lastOp.op = "toggle" /\ Len(todos) = 2
  /\ StrictEq(todos[2].id, lastOp.arg) /\ todos[2].completed
  /\ ~StrictEq(todos[1].id, lastOp.arg)

\* C9: delete(id) keeps exactly the items with another id, in order; no item
\* with that id remains; deleting again, or deleting an id in no item,
\* changes nothing.
C9_DeleteIdempotent ==
  \A id \in IdInputs :
    LET gone == Deleted(todos, id) IN
    /\ ~Has(gone, id)
    /\ IsSelection(gone, todos,
                   {i \in 1..Len(todos) : ~StrictEq(todos[i].id, id)})
    /\ Deleted(gone, id) = gone
    /\ ~Has(todos, id) => gone = todos

\* A delete has removed one item and left another.
C9_Witness ==
  /\ lastOp.op = "delete" /\ lastOp.arg # NaN
  /\ Len(todos) = 1 /\ todoCount.total = 1

\* C10: after every call, whether or not its write threw, the call has
\* finished normally and the rendered list and counter are those of the
\* current collection under the current filter.
C10_ViewFollowsState ==
  lastOp.op \in {"init", "add", "toggle", "delete", "setFilter"}
    => /\ ~lastOp.threw
       /\ todoList = renderTodos(todos, currentFilter)
       /\ todoCount = updateTodoCounter(todos)

====
